---- MODULE Spec2Model ----
(***************************************************************************)
(* Green tree of rowan: reference counted immutable nodes and tokens       *)
(* (src/green/node.rs), the deduplicating NodeCache with its gc() sweep    *)
(* and the GreenNodeBuilder with checkpoints (src/green/builder.rs).       *)
(*                                                                         *)
(* The heap is a finite map from allocation ids to objects; every owning   *)
(* handle (a cache table slot, a child slot of a live node, an entry of    *)
(* the builder's pending buffer, a handle kept by the caller) counts one   *)
(* in the object's strong count, exactly as the Arc does.                  *)
(***************************************************************************)
EXTENDS Integers, Sequences, FiniteSets, TLC

\* ---------------------------------------------------------------- bounds
MaxObj == 5          \* allocations that may be live at once
NumKinds == 2        \* SyntaxKind values the parser gives to nodes
NumTokenKinds == 1   \* SyntaxKind values the parser gives to tokens
MaxBuf == 3          \* longest pending buffer the parser lets grow
MaxParents == 2      \* deepest parents stack the parser opens
MaxCps == 1          \* checkpoints the parser keeps per build
MaxExt == 1          \* handles the caller retains at once
MaxTokens == 3       \* token() calls per build
MaxCacheCalls == 9   \* calls the parser makes on the builders of one borrowed cache
MaxCalls == 8        \* builder calls per build
GcMaxObj == 3        \* allocations that may be live at once around a long-lived cache
GcNumKinds == 1      \* SyntaxKind values passed to the node() of a long-lived cache
GcNumTexts == 1      \* token texts passed to the token() of a long-lived cache
GcMaxArity == 4      \* most children passed to the node() of a long-lived cache
GcMaxExt == 5        \* handles held at once outside a long-lived cache
ShareMaxObj == 3     \* allocations that may be live at once around a shared cache
ShareMaxArity == 2   \* most children passed to node() while trees are shared
ShareMaxExt == 3     \* handles the threads hold at once outside a shared cache
ShareMaxDying == 4   \* handles a thread may have left to drop while it frees a node
NodeMaxObj == 4      \* allocations that may be live at once when a tree is edited by hand
NodeNumTexts == 2    \* texts of the tokens a tree edited by hand starts from
NodeMaxCalls == 4    \* calls the caller makes when editing by hand
NodeMaxArity == 3    \* most children passed to GreenNode::new by hand
NodeMaxExt == 3      \* handles the caller holds at once when editing by hand
RangeMaxArity == 3   \* most children of a node queried with child_at_range
RangeMaxEnd == 7     \* largest end of a queried range

\* ------------------------------------------------------- program constants
InternThreshold == 3 \* builder.rs:29  node.children().len() <= 3
GcLiveCount == 2     \* builder.rs:56  node.strong_count() <= 2
TableOnlyCount == 1  \* builder.rs:44,48  strong_count() > 1 is kept

Ids == 1..MaxObj
Kinds == 0..(NumKinds - 1)
TokenKinds == 0..(NumTokenKinds - 1)
GcKinds == 0..(GcNumKinds - 1)
TextOf(i) == IF i = 1 THEN "a" ELSE IF i = 2 THEN "bc" ELSE IF i = 3 THEN "" ELSE "def"
GcTexts == {TextOf(i) : i \in 1..GcNumTexts}
NodeTexts == {TextOf(i) : i \in 1..NodeNumTexts}
Texts == {"a", "bc"}

VARIABLES
    heap,      \* id -> object (token, node or free slot)
    rc,        \* id -> strong count of the allocation
    nodes,     \* NodeCache.nodes: ids the node table holds a handle to
    tokens,    \* NodeCache.tokens: ids the token table holds a handle to
    building,  \* a GreenNodeBuilder exists
    owned,     \* MaybeOwned::Owned: the builder owns its cache (new())
    own_nodes, \* NodeCache.nodes of the cache a builder made by new() owns
    own_tokens, \* NodeCache.tokens of the cache a builder made by new() owns
    parents,   \* GreenNodeBuilder.parents: <<kind, first_child>> frames
    children,  \* GreenNodeBuilder.children: pending element handles
    ext,       \* id -> handles held outside the builder and the cache tables
    cps,       \* Checkpoint values the parser holds, with their history
    ptag,      \* per frame: index in cps of the checkpoint that opened it, 0 for start_node
    emitted,   \* texts passed to token() during the current build, in call order
    ncalls,    \* calls the parser made on the current builder
    sweep,     \* a gc() in steps: its position and the locals of the thread running it
    dying,     \* handles the other threads have still to drop while freeing a node
    ev         \* the last call and what it returned

vars == <<heap, rc, nodes, tokens, building, owned, own_nodes, own_tokens, parents, children, ext, cps, ptag, emitted, ncalls, sweep, dying, ev>>

\* ------------------------------------------------------------ the objects
Free == [tag |-> "free", kind |-> 0, text |-> "", text_len |-> 0, children |-> <<>>]

\* GreenToken::new(kind, text); its length is the length of its text.
GreenTokenNew(kind, text) ==
    [tag |-> "token", kind |-> kind, text |-> text, text_len |-> Len(text), children |-> <<>>]

IsNode(hp, id) == hp[id].tag = "node"
IsToken(hp, id) == hp[id].tag = "token"

\* GreenElement::text_len
TextLen(hp, id) == hp[id].text_len

\* The handles an object owns: its child slots, in order.
ChildIds(o) == [i \in 1..Len(o.children) |-> o.children[i].el]

\* The running sum `text_len` of GreenNode::new before child i (1-based) is visited.
RunningLenLast(hp, els, i) == IF i = 0 THEN 0 ELSE TextLen(hp, els[i])
RECURSIVE RunningLen(_, _, _)
RunningLen(hp, els, i) ==
    IF i = 0 THEN 0 ELSE RunningLen(hp, els, i - 1) + TextLen(hp, els[i])

\* The offset GreenNode::new stores with child i: the sum before adding child i.
OffsetMut(hp, els, i) == RunningLen(hp, els, i)
OffsetInParent(hp, els, i) == RunningLen(hp, els, i - 1)

\* GreenNode::new(kind, children): the head and the child slots.
GreenNodeNew(hp, kind, els) ==
    [tag |-> "node", kind |-> kind, text |-> "",
     text_len |-> RunningLen(hp, els, Len(els)),
     children |-> [i \in 1..Len(els) |->
                     [offset_in_parent |-> OffsetInParent(hp, els, i), el |-> els[i]]]]

\* derive(PartialEq, Eq, Hash): equality by value of head and children, recursively.
RECURSIVE Shape(_, _)
Shape(hp, id) ==
    LET o == hp[id] IN
    [tag |-> o.tag, kind |-> o.kind, text |-> o.text, text_len |-> o.text_len,
     children |-> [i \in 1..Len(o.children) |->
                     [offset_in_parent |-> o.children[i].offset_in_parent,
                      el |-> Shape(hp, o.children[i].el)]]]

StructEq(hp, a, b) == Shape(hp, a) = Shape(hp, b)

\* Texts of the tokens below id in pre-order, left to right.
RECURSIVE LeafTexts(_, _)
RECURSIVE LeafTextsOf(_, _)
LeafTextsOf(hp, els) ==
    IF els = <<>> THEN <<>> ELSE LeafTexts(hp, Head(els)) \o LeafTextsOf(hp, Tail(els))
LeafTexts(hp, id) ==
    IF IsToken(hp, id) THEN <<hp[id].text>> ELSE LeafTextsOf(hp, ChildIds(hp[id]))

\* ------------------------------------------------------ reference counting
HasFree(hp) == \E i \in Ids : hp[i].tag = "free"
Alloc(hp) == CHOOSE i \in Ids : hp[i].tag = "free" /\ \A j \in Ids : hp[j].tag = "free" => i <= j

\* Arc::clone
Retain(cnt, id) == [cnt EXCEPT ![id] = @ + 1]

\* Drop of the handles in todo: the count falls by one; at zero the object is freed
\* and the handles in its child slots are dropped in turn.
RECURSIVE Release(_, _, _)
Release(hp, cnt, todo) ==
    IF todo = <<>> THEN [heap |-> hp, rc |-> cnt]
    ELSE LET id == Head(todo) IN
         IF cnt[id] > 1
         THEN Release(hp, [cnt EXCEPT ![id] = @ - 1], Tail(todo))
         ELSE Release([hp EXCEPT ![id] = Free], [cnt EXCEPT ![id] = 0],
                      ChildIds(hp[id]) \o Tail(todo))

\* The orders in which a hash table may yield the members of S.
Orders(S) == {f \in [1..Cardinality(S) -> S] : \A i, j \in 1..Cardinality(S) : f[i] = f[j] => i = j}

\* The members of S one after another, in some order.
RECURSIVE SetToSeq(_)
SetToSeq(S) ==
    IF S = {} THEN <<>>
    ELSE LET x == CHOOSE x \in S : TRUE IN <<x>> \o SetToSeq(S \ {x})

\* ------------------------------------------------------------- NodeCache
\* raw_entry_mut().from_key(&x): the table entries equal to x by value.
LookupMut(hp, tbl, id) == {}
Lookup(hp, tbl, id) == {e \in tbl : StructEq(hp, e, id)}

\* from_key(&x).or_insert(x, ()).0.clone(): on a hit the candidate x is dropped and
\* the entry is cloned; on a miss x moves into the table and is cloned.
InternReplace(hp, cnt, tbl, id) ==
    LET hit == Lookup(hp, tbl, id)
        r == Release(hp, cnt, SetToSeq(hit))
    IN [heap |-> r.heap, rc |-> Retain(r.rc, id), table |-> (tbl \ hit) \cup {id}, ret |-> id]
Intern(hp, cnt, tbl, id) ==
    LET hit == Lookup(hp, tbl, id) IN
    IF hit # {}
    THEN LET e == CHOOSE e \in hit : TRUE
             r == Release(hp, cnt, <<id>>)
         IN [heap |-> r.heap, rc |-> Retain(r.rc, e), table |-> tbl, ret |-> e]
    ELSE [heap |-> hp, rc |-> Retain(cnt, id), table |-> tbl \cup {id}, ret |-> id]

\* NodeCache::node(kind, children): the children handles move into the candidate.
InternsAll(n) == TRUE
Interns(n) == n <= InternThreshold

CacheNode(hp, cnt, tbl, kind, els) ==
    LET id == Alloc(hp)
        hp1 == [hp EXCEPT ![id] = GreenNodeNew(hp, kind, els)]
        cnt1 == [cnt EXCEPT ![id] = 1]
    IN IF Interns(Len(els))
       THEN Intern(hp1, cnt1, tbl, id)
       ELSE [heap |-> hp1, rc |-> cnt1, table |-> tbl, ret |-> id]

\* NodeCache::token(kind, text)
CacheToken(hp, cnt, tbl, kind, text) ==
    LET id == Alloc(hp)
        hp1 == [hp EXCEPT ![id] = GreenTokenNew(kind, text)]
        cnt1 == [cnt EXCEPT ![id] = 1]
    IN Intern(hp1, cnt1, tbl, id)

\* ------------------------------------------------------- what a call reports
EvBase ==
    [op |-> "init", res |-> "ok", ret |-> 0, plen |-> 0, clen |-> 0, n |-> 0,
     kind |-> 0, idx |-> 0, top |-> 0, orig |-> 0, new_child |-> 0,
     start |-> 0, end |-> 0, offset |-> 0, log |-> <<>>,
     cp |-> 0, stale |-> FALSE, consumed |-> FALSE, clean |-> FALSE,
     prefix |-> <<>>, appended |-> <<>>, texts |-> <<>>]

Ev(op, res, ret) ==
    [EvBase EXCEPT !.op = op, !.res = res, !.ret = ret,
                   !.plen = Len(parents), !.clen = Len(children)]

\* Live objects other than id that are equal to id by value.
Equals(hp, id) == {x \in Ids \ {id} : hp[x].tag # "free" /\ StructEq(hp, x, id)}

ShapesOf(hp, els) == [i \in 1..Len(els) |-> Shape(hp, els[i])]

\* No gc() is running.
SweepIdle == [pc |-> "idle", todo |-> {}, to_drop |-> <<>>, node |-> 0, kids |-> <<>>,
              pend |-> <<>>]

\* ------------------------------------------------------ GreenNodeBuilder
Init ==
    /\ heap = [i \in Ids |-> Free]
    /\ rc = [i \in Ids |-> 0]
    /\ nodes = {}
    /\ tokens = {}
    /\ building = FALSE
    /\ owned = FALSE
    /\ parents = <<>>
    /\ children = <<>>
    /\ ext = [i \in Ids |-> 0]
    /\ cps = <<>>
    /\ ptag = <<>>
    /\ emitted = <<>>
    /\ ncalls = 0
    /\ sweep = SweepIdle
    /\ dying = <<>>
    /\ own_nodes = {}
    /\ own_tokens = {}
    /\ ev = EvBase

ExtSize == LET RECURSIVE Sum(_)
               Sum(i) == IF i = 0 THEN 0 ELSE ext[i] + Sum(i - 1)
           IN Sum(MaxObj)

\* GreenNodeBuilder::new(): the builder owns a cache of its own, empty at first; a
\* long-lived cache and what it holds stay as they are beside it.
New ==
    /\ ~building
    /\ building' = TRUE
    /\ owned' = TRUE
    /\ own_nodes' = {}
    /\ own_tokens' = {}
    /\ parents' = <<>>
    /\ children' = <<>>
    /\ cps' = <<>>
    /\ ptag' = <<>>
    /\ emitted' = <<>>
    /\ ev' = Ev("new", "ok", 0)
    /\ UNCHANGED <<heap, rc, nodes, tokens, ext>>

\* GreenNodeBuilder::with_cache(cache): the builder borrows a cache that outlives
\* it, with whatever the tables hold.
WithCache ==
    /\ ~building
    /\ building' = TRUE
    /\ owned' = FALSE
    /\ parents' = <<>>
    /\ children' = <<>>
    /\ cps' = <<>>
    /\ ptag' = <<>>
    /\ emitted' = <<>>
    /\ ev' = Ev("with_cache", "ok", 0)
    /\ UNCHANGED <<heap, rc, nodes, tokens, own_nodes, own_tokens, ext>>

\* Drop of the long-lived NodeCache while no builder borrows it: the tables drop
\* their handles.
DropCache ==
    /\ ~building \/ owned
    /\ nodes \cup tokens # {}
    /\ LET r == Release(heap, rc, SetToSeq(nodes \cup tokens)) IN
        /\ heap' = r.heap
        /\ rc' = r.rc
    /\ nodes' = {}
    /\ tokens' = {}
    /\ ev' = Ev("drop_cache", "ok", 0)
    /\ UNCHANGED <<building, owned, own_nodes, own_tokens, parents, children, ext, cps, ptag, emitted>>

\* Drop of a GreenNodeBuilder: an owned cache drops the handles in its tables, the
\* pending buffer drops its handles.
DropBuilderFields(hp, cnt, ch) ==
    LET r1 == IF owned THEN Release(hp, cnt, SetToSeq(own_nodes \cup own_tokens))
              ELSE [heap |-> hp, rc |-> cnt]
        r2 == Release(r1.heap, r1.rc, ch)
    IN [heap |-> r2.heap, rc |-> r2.rc]

\* A panic unwinds through the builder's owner: the builder is dropped.
Abort(e) ==
    LET d == DropBuilderFields(heap, rc, children) IN
    /\ heap' = d.heap
    /\ rc' = d.rc
    /\ own_nodes' = {}
    /\ own_tokens' = {}
    /\ building' = FALSE
    /\ owned' = FALSE
    /\ parents' = <<>>
    /\ children' = <<>>
    /\ cps' = <<>>
    /\ ptag' = <<>>
    /\ ev' = e
    /\ emitted' = <<>>
    /\ UNCHANGED <<nodes, tokens, ext>>

\* ----------------------------------------- history of the held checkpoints
\* For each Checkpoint the parser holds: idx is the value checkpoint() returned; the
\* rest records what happened since. level is the depth of the parents stack when it
\* was taken, prefix the pending buffer at that moment, appended the complete elements
\* (tokens, closed start_node groups) emitted since at that depth, opened whether
\* start_node_at(cp, kind) pushed its frame, clean whether only complete elements and that
\* one start_node_at happened at its depth, stale whether a finish_node drained from
\* below idx, consumed whether the frame start_node_at(cp) opened was closed.
CpRec(hp, ch, depth) ==
    [idx |-> Len(ch), level |-> depth, opened |-> FALSE, kind |-> 0, clean |-> TRUE,
     stale |-> FALSE, consumed |-> FALSE,
     prefix |-> [i \in 1..Len(ch) |-> [id |-> ch[i], shape |-> Shape(hp, ch[i])]],
     appended |-> <<>>]

CpDepth(r) == r.level + (IF r.opened THEN 1 ELSE 0)

\* Once the history leaves the case of a checkpoint followed by complete elements,
\* only idx, stale and consumed are followed.
Unclean(r) ==
    [r EXCEPT !.clean = FALSE, !.level = 0, !.opened = FALSE, !.kind = 0,
              !.prefix = <<>>, !.appended = <<>>]

CpsOnToken(q, depth, shape) ==
    [i \in 1..Len(q) |->
        IF q[i].clean /\ depth = CpDepth(q[i])
        THEN [q[i] EXCEPT !.appended = Append(@, shape)] ELSE q[i]]

CpsOnStartNodeAt(q, depth, j, kind) ==
    [i \in 1..Len(q) |->
        IF i = j
        THEN (IF ~q[i].opened /\ depth = q[i].level
              THEN [q[i] EXCEPT !.opened = TRUE, !.kind = kind] ELSE Unclean(q[i]))
        ELSE (IF depth = CpDepth(q[i]) THEN Unclean(q[i]) ELSE q[i])]

CpsOnFinishNode(q, depth, first_child, tag, shape) ==
    [i \in 1..Len(q) |->
        LET r == [q[i] EXCEPT !.stale = @ \/ first_child < q[i].idx] IN
        IF tag = i THEN Unclean([r EXCEPT !.consumed = TRUE])
        ELSE IF r.clean /\ depth - 1 = CpDepth(r) /\ tag = 0
             THEN [r EXCEPT !.appended = Append(@, shape)]
        ELSE IF depth - 1 <= CpDepth(r) THEN Unclean(r)
        ELSE r]

\* --------------------------------------------------------- builder calls
\* GreenNodeBuilder::token(kind, text)
Token(kind, text) ==
    /\ building
    /\ HasFree(heap)
    /\ LET c == CacheToken(heap, rc, IF owned THEN own_tokens ELSE tokens, kind, text)
       IN /\ heap' = c.heap
          /\ rc' = c.rc
          /\ tokens' = (IF owned THEN tokens ELSE c.table)
          /\ own_tokens' = (IF owned THEN c.table ELSE own_tokens)
          /\ children' = Append(children, c.ret)
          /\ cps' = CpsOnToken(cps, Len(parents), Shape(c.heap, c.ret))
          /\ emitted' = Append(emitted, text)
          /\ ev' = [Ev("token", "ok", c.ret) EXCEPT !.kind = kind]
    /\ UNCHANGED <<nodes, building, owned, own_nodes, parents, ext, ptag>>

\* GreenNodeBuilder::start_node(kind)
StartNode(kind) ==
    /\ building
    /\ parents' = Append(parents, <<kind, Len(children)>>)
    /\ ptag' = Append(ptag, 0)
    /\ ev' = [Ev("start_node", "ok", 0) EXCEPT !.kind = kind]
    /\ UNCHANGED <<heap, rc, nodes, tokens, building, owned, own_nodes, own_tokens, children, ext, cps,
                   emitted>>

\* parents.pop().unwrap() and children.drain(first_child..) do not panic
FinishNodeOk == parents # <<>> /\ parents[Len(parents)][2] <= Len(children)

\* The run children.drain(first_child..) hands to NodeCache::node.
DrainedMut(ch, first_child) == SubSeq(ch, first_child + 2, Len(ch))
DrainedAll(ch, first_child) == ch
Drained(ch, first_child) == SubSeq(ch, first_child + 1, Len(ch))

\* GreenNodeBuilder::finish_node()
FinishNode ==
    /\ building
    /\ FinishNodeOk
    /\ HasFree(heap)
    /\ LET top == parents[Len(parents)]
           kind == top[1]
           first_child == top[2]
           tag == ptag[Len(ptag)]
           els == Drained(children, first_child)
           c == CacheNode(heap, rc, IF owned THEN own_nodes ELSE nodes, kind, els)
       IN /\ heap' = c.heap
          /\ rc' = c.rc
          /\ nodes' = (IF owned THEN nodes ELSE c.table)
          /\ own_nodes' = (IF owned THEN c.table ELSE own_nodes)
          /\ parents' = SubSeq(parents, 1, Len(parents) - 1)
          /\ ptag' = SubSeq(ptag, 1, Len(ptag) - 1)
          /\ children' = Append(SubSeq(children, 1, first_child), c.ret)
          /\ cps' = CpsOnFinishNode(cps, Len(parents), first_child, tag, Shape(c.heap, c.ret))
          /\ ev' = [Ev("finish_node", "ok", c.ret) EXCEPT
                      !.kind = IF tag # 0 /\ cps[tag].clean THEN cps[tag].kind ELSE kind,
                      !.n = Len(els), !.idx = first_child,
                      !.cp = tag,
                      !.clean = (tag # 0 /\ cps[tag].clean),
                      !.prefix = IF tag # 0 THEN cps[tag].prefix ELSE <<>>,
                      !.appended = IF tag # 0 THEN cps[tag].appended ELSE <<>>]
    /\ UNCHANGED <<tokens, building, owned, own_tokens, ext, emitted>>

\* finish_node() with nothing to pop or a drain range out of bounds: the unwrap or
\* the drain panics.
FinishNodePanic ==
    /\ building
    /\ ~FinishNodeOk
    /\ Abort(Ev("finish_node", "panic", 0))

\* GreenNodeBuilder::checkpoint()
Checkpoint ==
    /\ building
    /\ cps' = Append(cps, CpRec(heap, children, Len(parents)))
    /\ ev' = [Ev("checkpoint", "ok", 0) EXCEPT !.idx = Len(children)]
    /\ UNCHANGED <<heap, rc, nodes, tokens, building, owned, own_nodes, own_tokens, parents, children, ext, ptag, emitted>>

\* first_child of the open frame, 0 when no frame is open.
TopStart == IF parents = <<>> THEN 0 ELSE parents[Len(parents)][2]

\* The two assertions of start_node_at.
CheckpointValidMut(checkpoint) == checkpoint <= Len(children)
CheckpointValidAny(checkpoint) == TRUE
CheckpointValidNoLen(checkpoint) == parents # <<>> => checkpoint >= parents[Len(parents)][2]
CheckpointValid(checkpoint) ==
    /\ checkpoint <= Len(children)
    /\ parents # <<>> => checkpoint >= parents[Len(parents)][2]

\* The frame start_node_at pushes.
FrameAtMut(kind, checkpoint) == <<kind, Len(children)>>
FrameAt(kind, checkpoint) == <<kind, checkpoint>>

\* GreenNodeBuilder::start_node_at(checkpoint, kind)
StartNodeAt(j, kind) ==
    /\ building
    /\ j \in 1..Len(cps)
    /\ CheckpointValid(cps[j].idx)
    /\ parents' = Append(parents, FrameAt(kind, cps[j].idx))
    /\ ptag' = Append(ptag, j)
    /\ cps' = CpsOnStartNodeAt(cps, Len(parents), j, kind)
    /\ ev' = [Ev("start_node_at", "ok", 0) EXCEPT
                !.kind = kind, !.cp = j, !.idx = cps[j].idx, !.top = TopStart,
                !.stale = cps[j].stale, !.consumed = cps[j].consumed]
    /\ UNCHANGED <<heap, rc, nodes, tokens, building, owned, own_nodes, own_tokens, children, ext,
                   emitted>>

StartNodeAtPanic(j) ==
    /\ building
    /\ j \in 1..Len(cps)
    /\ ~CheckpointValid(cps[j].idx)
    /\ Abort([Ev("start_node_at", "panic", 0) EXCEPT
                !.cp = j, !.idx = cps[j].idx, !.top = TopStart,
                !.stale = cps[j].stale, !.consumed = cps[j].consumed])

\* assert_eq!(self.children.len(), 1) and the match on the popped element
FinishOkMut == Len(children) >= 1 /\ IsNode(heap, children[Len(children)])
FinishOkAny == Len(children) = 1
FinishOk == Len(children) = 1 /\ IsNode(heap, children[1])

\* GreenNodeBuilder::finish(): the root's handle moves to the caller, the builder
\* is consumed.
Finish ==
    /\ building
    /\ emitted' = <<>>
    /\ FinishOk
    /\ LET root == children[Len(children)]
           d == DropBuilderFields(heap, rc, SubSeq(children, 1, Len(children) - 1))
       IN /\ heap' = d.heap
          /\ rc' = d.rc
          /\ ext' = [ext EXCEPT ![root] = @ + 1]
          /\ ev' = [Ev("finish", "ok", root) EXCEPT !.texts = emitted]
    /\ own_nodes' = {}
    /\ own_tokens' = {}
    /\ UNCHANGED <<nodes, tokens>>
    /\ building' = FALSE
    /\ owned' = FALSE
    /\ parents' = <<>>
    /\ children' = <<>>
    /\ cps' = <<>>
    /\ ptag' = <<>>

FinishPanic ==
    /\ building
    /\ ~FinishOk
    /\ Abort(Ev("finish", "panic", 0))

\* ------------------------------------------------- handles of the caller
\* The objects of the tree below id, id included.
RECURSIVE Tree(_, _)
Tree(hp, id) == {id} \cup UNION {Tree(hp, hp[id].children[i].el) : i \in 1..Len(hp[id].children)}

\* Everything reachable from a handle the caller retains.
Retained(hp, held) == UNION {Tree(hp, id) : id \in {i \in Ids : held[i] > 0}}

\* children().cloned() / to_owned() / clone(): an owned handle to a part of a
\* retained tree.
CloneHandle(id) ==
    /\ id \in Retained(heap, ext)
    /\ rc' = Retain(rc, id)
    /\ ext' = [ext EXCEPT ![id] = @ + 1]
    /\ ev' = Ev("handle", "ok", 0)
    /\ UNCHANGED <<heap, nodes, tokens, building, owned, own_nodes, own_tokens, parents, children, cps, ptag, emitted>>

\* Drop of a handle the caller retains.
DropHandle(id) ==
    /\ ext[id] > 0
    /\ LET r == Release(heap, rc, <<id>>) IN
        /\ heap' = r.heap
        /\ rc' = r.rc
    /\ ext' = [ext EXCEPT ![id] = @ - 1]
    /\ ev' = Ev("handle", "ok", 0)
    /\ UNCHANGED <<nodes, tokens, building, owned, own_nodes, own_tokens, parents, children, cps, ptag, emitted>>

\* -------------------------------------------------------- NodeCache::gc
\* The predicate of drain_filter and retain: entries for which it is FALSE leave
\* the table.
KeepsOwned(count) == count > TableOnlyCount + 1
Keeps(count) == count > TableOnlyCount

\* node.strong_count() <= 2 in the sweep
CollectibleMut(count) == count <= GcLiveCount + 1
CollectibleStrict(count) == count < GcLiveCount
Collectible(count) == count <= GcLiveCount

\* for child in node.children() { if let Some(node) = child.into_node() { push(clone) } }
ChildNodesMut(hp, id) == <<>>
ChildNodes(hp, id) == SelectSeq(ChildIds(hp[id]), LAMBDA c : IsNode(hp, c))

RECURSIVE RetainAll(_, _)
RetainAll(cnt, ids) == IF ids = <<>> THEN cnt ELSE RetainAll(Retain(cnt, Head(ids)), Tail(ids))

\* What the sweep saw when it popped a node: its strong count (the popped handle
\* included), whether the table held it, its number of children, and the outcome of
\* the test.
Popped(hp, cnt, tbl, node) ==
    [count |-> cnt[node], in_table |-> node \in tbl, n |-> Len(hp[node].children),
     collect |-> Collectible(cnt[node])]

\* while let Some(node) = to_drop.pop() { ... }; log records every pop.
RECURSIVE Sweep(_, _, _, _, _)
Sweep(hp, cnt, tbl, to_drop, log) ==
    IF to_drop = <<>> THEN [heap |-> hp, rc |-> cnt, table |-> tbl, log |-> log]
    ELSE LET node == to_drop[Len(to_drop)]
             rest == SubSeq(to_drop, 1, Len(to_drop) - 1)
             log1 == Append(log, Popped(hp, cnt, tbl, node))
         IN IF Collectible(cnt[node])
            THEN LET gone == Lookup(hp, tbl, node)
                     r1 == Release(hp, cnt, SetToSeq(gone))
                     kids == ChildNodes(r1.heap, node)
                     cnt2 == RetainAll(r1.rc, kids)
                     r2 == Release(r1.heap, cnt2, <<node>>)
                 IN Sweep(r2.heap, r2.rc, tbl \ gone, rest \o kids, log1)
            ELSE LET r == Release(hp, cnt, <<node>>)
                 IN Sweep(r.heap, r.rc, tbl, rest, log1)

\* collect_tokens: retain(|token, ()| token.strong_count() > 1)
CollectTokens(hp, cnt, tbl) ==
    LET gone == {t \in tbl : ~Keeps(cnt[t])}
        r == Release(hp, cnt, SetToSeq(gone))
    IN [heap |-> r.heap, rc |-> r.rc, table |-> tbl \ gone]

\* NodeCache::gc(). It takes &mut self, so no builder borrows the cache meanwhile.
\* collect_root_nodes moves the entries with a FALSE predicate into to_drop, in the
\* table's iteration order.
Gc ==
    /\ ~building
    /\ LET roots == {e \in nodes : ~Keeps(rc[e])} IN
       \E to_drop \in Orders(roots) :
          LET s == Sweep(heap, rc, nodes \ roots, to_drop, <<>>)
              t == CollectTokens(s.heap, s.rc, tokens)
          IN /\ heap' = t.heap
             /\ rc' = t.rc
             /\ nodes' = s.table
             /\ tokens' = t.table
             /\ ev' = [Ev("gc", "ok", 0) EXCEPT
                         !.log = s.log,
                         !.n = Cardinality(nodes \cup tokens) - Cardinality(s.table \cup t.table)]
    /\ UNCHANGED <<building, owned, own_nodes, own_tokens, parents, children, ext, cps, ptag, emitted>>

\* ------------------------------------------------------- the specification
\* A parser driving a builder that owns its cache (new()) or borrows one that
\* outlives it (with_cache()); the caller keeps or drops the root. A build on an
\* owned cache while the long-lived cache is empty starts with a call count of 0 and
\* stops at MaxCalls; the calls made while the long-lived cache holds something are
\* counted together, new() and with_cache() included, and stop at MaxCacheCalls.
\* Dropping the cache between builds resets the count.
CanCall == ncalls < (IF building /\ owned /\ nodes \cup tokens = {} THEN MaxCalls
                     ELSE MaxCacheCalls)
Called == ncalls' = ncalls + 1 /\ UNCHANGED <<sweep, dying>>
Ended ==
    /\ ncalls' = (IF owned /\ nodes \cup tokens = {} THEN 0 ELSE ncalls + 1)
    /\ UNCHANGED <<sweep, dying>>
Opened ==
    /\ ncalls' = (IF nodes \cup tokens = {} THEN 0 ELSE ncalls + 1)
    /\ UNCHANGED <<sweep, dying>>
Dropped ==
    /\ ncalls' = (IF building THEN ncalls ELSE 0)
    /\ UNCHANGED <<sweep, dying>>

Next ==
    \/ CanCall /\ ExtSize = 0 /\ New /\ Opened
    \/ CanCall /\ ExtSize = 0 /\ WithCache /\ Called
    \/ DropCache /\ Dropped
    \/ \E k \in TokenKinds, t \in Texts :
          CanCall /\ Len(children) < MaxBuf /\ Len(emitted) < MaxTokens /\ Token(k, t) /\ Called
    \/ \E k \in Kinds :
          CanCall /\ Len(parents) < MaxParents /\ Len(children) < MaxBuf /\ StartNode(k) /\ Called
    \/ CanCall /\ FinishNode /\ Called
    \/ CanCall /\ FinishNodePanic /\ Ended
    \/ CanCall /\ Len(cps) < MaxCps /\ Len(children) < MaxBuf /\ Checkpoint /\ Called
    \/ \E j \in 1..MaxCps, k \in Kinds :
          CanCall /\ Len(parents) < MaxParents /\ StartNodeAt(j, k) /\ Called
    \/ \E j \in 1..MaxCps : CanCall /\ StartNodeAtPanic(j) /\ Ended
    \/ CanCall /\ ExtSize < MaxExt /\ Finish /\ Ended
    \/ CanCall /\ FinishPanic /\ Ended
    \/ \E id \in Ids : DropHandle(id) /\ UNCHANGED <<ncalls, sweep, dying>>

Spec == Init /\ [][Next]_vars

\* ------------------------------------------- a cache that outlives its builders
\* What the builders and the caller do to a long-lived NodeCache: every handle outside
\* the tables (an element of a pending buffer, a tree the caller kept) is in ext.
\* The elements finish_node drains from the pending buffer: handles held outside the
\* cache, moved into the call. A node that is not in the table has the one handle
\* node() returned, until finish() hands the tree to the caller.
Moved(els) == [id \in Ids |-> Cardinality({i \in 1..Len(els) : els[i] = id})]

Drainable(els) ==
    /\ \A id \in Ids : Moved(els)[id] <= ext[id]
    /\ \A i \in 1..Len(els) : (IsNode(heap, els[i]) /\ els[i] \notin nodes) => rc[els[i]] = 1

\* cache.token(kind, text), the handle it returns is pushed on the pending buffer.
TokenCall(kind, text) ==
    /\ ~building
    /\ HasFree(heap)
    /\ LET c == CacheToken(heap, rc, tokens, kind, text)
       IN /\ heap' = c.heap
          /\ rc' = c.rc
          /\ tokens' = c.table
          /\ ext' = [ext EXCEPT ![c.ret] = @ + 1]
          /\ ev' = [Ev("token", "ok", c.ret) EXCEPT !.kind = kind]
    /\ UNCHANGED <<nodes, building, owned, own_nodes, own_tokens, parents, children, cps, ptag, emitted>>

\* cache.node(kind, children.drain(first_child..)), the handle it returns is pushed
\* on the pending buffer.
NodeCall(kind, els) ==
    /\ ~building
    /\ HasFree(heap)
    /\ Drainable(els)
    /\ LET c == CacheNode(heap, rc, nodes, kind, els)
       IN /\ heap' = c.heap
          /\ rc' = c.rc
          /\ nodes' = c.table
          /\ ext' = [id \in Ids |-> ext[id] - Moved(els)[id] + (IF id = c.ret THEN 1 ELSE 0)]
          /\ ev' = [Ev("node", "ok", c.ret) EXCEPT !.kind = kind, !.n = Len(els)]
    /\ UNCHANGED <<tokens, building, owned, own_nodes, own_tokens, parents, children, cps, ptag, emitted>>

GcCanAlloc == Cardinality({i \in Ids : heap[i].tag # "free"}) < GcMaxObj
GcArgs == UNION {[1..n -> {id \in Ids : ext[id] > 0}] : n \in 0..GcMaxArity}

NextCache ==
    \/ \E k \in TokenKinds, t \in GcTexts :
          GcCanAlloc /\ ExtSize < GcMaxExt /\ TokenCall(k, t) /\ UNCHANGED <<ncalls, sweep, dying>>
    \/ \E k \in GcKinds, els \in GcArgs :
          GcCanAlloc /\ ExtSize - Len(els) < GcMaxExt /\ NodeCall(k, els) /\ UNCHANGED <<ncalls, sweep, dying>>
    \/ \E id \in Ids : ExtSize < GcMaxExt /\ CloneHandle(id) /\ UNCHANGED <<ncalls, sweep, dying>>
    \/ \E id \in Ids : DropHandle(id) /\ UNCHANGED <<ncalls, sweep, dying>>
    \/ Gc /\ UNCHANGED <<ncalls, sweep, dying>>

SpecCache == Init /\ [][NextCache]_vars

\* --------------------------------------- trees shared with other threads
\* One thread owns the cache and calls token(), node() and gc(); the handles in ext
\* are held by any thread. Every step below makes at most one access to a strong
\* count, so the steps of gc() interleave with the clones and drops of the other
\* threads in every order; token() and node() read no count of a shared object and
\* stay single steps.
BuilderVars == <<building, owned, own_nodes, own_tokens, parents, children, cps, ptag, emitted, ncalls>>

\* Drop of one handle: the count falls by one; at zero the object is freed and the
\* handles in its child slots are left to drop.
DropOne(hp, cnt, id) ==
    IF cnt[id] > 1
    THEN [heap |-> hp, rc |-> [cnt EXCEPT ![id] = @ - 1], more |-> <<>>]
    ELSE [heap |-> [hp EXCEPT ![id] = Free], rc |-> [cnt EXCEPT ![id] = 0],
          more |-> ChildIds(hp[id])]

\* The thread in gc() is at pc and has finished the drops of its last step.
SweepAt(pc) == sweep.pc = pc /\ sweep.pend = <<>>

\* The position after an entry of a table was visited.
After(todo, pc, next) == IF todo = {} THEN next ELSE pc

\* gc() is entered: collect_root_nodes starts to visit the node table.
GcBegin ==
    /\ ~building
    /\ SweepAt("idle")
    /\ sweep' = [sweep EXCEPT !.pc = After(nodes, "roots", "pop"), !.todo = nodes]
    /\ ev' = Ev("gc_step", "ok", 0)
    /\ UNCHANGED <<heap, rc, nodes, tokens, ext, dying, BuilderVars>>

\* drain_filter evaluates node.strong_count() > 1 for the next entry of the table.
RootTest(e) ==
    /\ SweepAt("roots")
    /\ e \in sweep.todo
    /\ sweep' = IF Keeps(rc[e])
                THEN [sweep EXCEPT !.todo = @ \ {e}, !.pc = After(sweep.todo \ {e}, "roots", "pop")]
                ELSE [sweep EXCEPT !.todo = @ \ {e}, !.node = e, !.pc = "drain"]
    /\ ev' = Ev("gc_step", "ok", 0)
    /\ UNCHANGED <<heap, rc, nodes, tokens, ext, dying, BuilderVars>>

\* drain_filter moves the entry out of the table, collect() puts it on to_drop.
RootDrain ==
    /\ SweepAt("drain")
    /\ nodes' = nodes \ {sweep.node}
    /\ sweep' = [sweep EXCEPT !.to_drop = Append(@, sweep.node), !.node = 0,
                               !.pc = After(sweep.todo, "roots", "pop")]
    /\ ev' = Ev("gc_removed", "ok", sweep.node)
    /\ UNCHANGED <<heap, rc, tokens, ext, dying, BuilderVars>>

\* to_drop.pop() and node.strong_count() <= 2
SweepPop ==
    /\ SweepAt("pop")
    /\ sweep.to_drop # <<>>
    /\ LET node == sweep.to_drop[Len(sweep.to_drop)]
           rest == SubSeq(sweep.to_drop, 1, Len(sweep.to_drop) - 1)
       IN sweep' = IF Collectible(rc[node])
                   THEN [sweep EXCEPT !.to_drop = rest, !.node = node, !.pc = "remove"]
                   ELSE [sweep EXCEPT !.to_drop = rest, !.pend = <<node>>]
    /\ ev' = Ev("gc_step", "ok", 0)
    /\ UNCHANGED <<heap, rc, nodes, tokens, ext, dying, BuilderVars>>

\* self.nodes.remove(&node): the entry equal to node leaves the table and its handle
\* is dropped.
SweepRemove ==
    /\ SweepAt("remove")
    /\ LET gone == Lookup(heap, nodes, sweep.node) IN
        /\ nodes' = nodes \ gone
        /\ sweep' = [sweep EXCEPT !.pend = SetToSeq(gone), !.pc = "push",
                                   !.kids = ChildNodes(heap, sweep.node)]
        /\ ev' = Ev("gc_removed", "ok", IF gone = {} THEN 0 ELSE sweep.node)
    /\ UNCHANGED <<heap, rc, tokens, ext, dying, BuilderVars>>

\* to_drop.push(node.clone()) for the next child node.
SweepPush ==
    /\ SweepAt("push")
    /\ sweep.kids # <<>>
    /\ rc' = Retain(rc, Head(sweep.kids))
    /\ sweep' = [sweep EXCEPT !.to_drop = Append(@, Head(sweep.kids)), !.kids = Tail(@)]
    /\ ev' = Ev("gc_step", "ok", 0)
    /\ UNCHANGED <<heap, nodes, tokens, ext, dying, BuilderVars>>

\* The end of the loop body: the popped handle goes out of scope.
SweepNext ==
    /\ SweepAt("push")
    /\ sweep.kids = <<>>
    /\ sweep' = [sweep EXCEPT !.pend = <<sweep.node>>, !.node = 0, !.pc = "pop"]
    /\ ev' = Ev("gc_step", "ok", 0)
    /\ UNCHANGED <<heap, rc, nodes, tokens, ext, dying, BuilderVars>>

\* The worklist is empty: collect_tokens starts to visit the token table.
TokensBegin ==
    /\ SweepAt("pop")
    /\ sweep.to_drop = <<>>
    /\ sweep' = [sweep EXCEPT !.pc = "tokens", !.todo = tokens]
    /\ ev' = Ev("gc_step", "ok", 0)
    /\ UNCHANGED <<heap, rc, nodes, tokens, ext, dying, BuilderVars>>

\* retain evaluates token.strong_count() > 1 for the next entry of the table.
TokenTest(t) ==
    /\ SweepAt("tokens")
    /\ t \in sweep.todo
    /\ sweep' = IF Keeps(rc[t])
                THEN [sweep EXCEPT !.todo = @ \ {t}]
                ELSE [sweep EXCEPT !.todo = @ \ {t}, !.node = t, !.pc = "forget"]
    /\ ev' = Ev("gc_step", "ok", 0)
    /\ UNCHANGED <<heap, rc, nodes, tokens, ext, dying, BuilderVars>>

\* retain takes the entry out of the table and drops its handle.
TokenForget ==
    /\ SweepAt("forget")
    /\ tokens' = tokens \ {sweep.node}
    /\ sweep' = [sweep EXCEPT !.pend = <<sweep.node>>, !.node = 0, !.pc = "tokens"]
    /\ ev' = Ev("gc_removed", "ok", sweep.node)
    /\ UNCHANGED <<heap, rc, nodes, ext, dying, BuilderVars>>

\* gc() returns.
GcEnd ==
    /\ SweepAt("tokens")
    /\ sweep.todo = {}
    /\ sweep' = SweepIdle
    /\ ev' = Ev("gc", "ok", 0)
    /\ UNCHANGED <<heap, rc, nodes, tokens, ext, dying, BuilderVars>>

\* The thread in gc() drops the next handle it has to drop.
SweepRelease ==
    /\ sweep.pend # <<>>
    /\ LET d == DropOne(heap, rc, Head(sweep.pend)) IN
        /\ heap' = d.heap
        /\ rc' = d.rc
        /\ sweep' = [sweep EXCEPT !.pend = d.more \o Tail(@)]
    /\ ev' = Ev("gc_step", "ok", 0)
    /\ UNCHANGED <<nodes, tokens, ext, dying, BuilderVars>>

\* Another thread drops a handle it holds.
ThreadDrop(id) ==
    /\ ext[id] > 0
    /\ LET d == DropOne(heap, rc, id) IN
        /\ heap' = d.heap
        /\ rc' = d.rc
        /\ dying' = dying \o d.more
    /\ ext' = [ext EXCEPT ![id] = @ - 1]
    /\ ev' = Ev("handle", "ok", 0)
    /\ UNCHANGED <<nodes, tokens, sweep, BuilderVars>>

\* A thread that frees a node drops one of the handles in its child slots.
ThreadRelease(i) ==
    /\ i \in 1..Len(dying)
    /\ LET d == DropOne(heap, rc, dying[i]) IN
        /\ heap' = d.heap
        /\ rc' = d.rc
        /\ dying' = SubSeq(dying, 1, i - 1) \o d.more \o SubSeq(dying, i + 1, Len(dying))
    /\ ev' = Ev("handle", "ok", 0)
    /\ UNCHANGED <<nodes, tokens, ext, sweep, BuilderVars>>

ShareCanAlloc == Cardinality({i \in Ids : heap[i].tag # "free"}) < ShareMaxObj
ShareArgs == UNION {[1..n -> {id \in Ids : ext[id] > 0}] : n \in 0..ShareMaxArity}

NextShare ==
    \/ \E k \in TokenKinds, t \in GcTexts :
          /\ SweepAt("idle") /\ ShareCanAlloc /\ ExtSize < ShareMaxExt
          /\ TokenCall(k, t) /\ UNCHANGED <<ncalls, sweep, dying>>
    \/ \E k \in GcKinds, els \in ShareArgs :
          /\ SweepAt("idle") /\ ShareCanAlloc /\ ExtSize - Len(els) < ShareMaxExt
          /\ NodeCall(k, els) /\ UNCHANGED <<ncalls, sweep, dying>>
    \/ \E id \in Ids : ExtSize < ShareMaxExt /\ CloneHandle(id) /\ UNCHANGED <<ncalls, sweep, dying>>
    \/ \E id \in Ids : ThreadDrop(id)
    \/ \E i \in 1..ShareMaxDying : ThreadRelease(i)
    \/ GcBegin
    \/ \E e \in Ids : RootTest(e)
    \/ RootDrain
    \/ SweepPop
    \/ SweepRemove
    \/ SweepPush
    \/ SweepNext
    \/ TokensBegin
    \/ \E t \in Ids : TokenTest(t)
    \/ TokenForget
    \/ GcEnd
    \/ SweepRelease

\* The cache after four token(0, "a") calls and node(k, ...) over the four handles:
\* the token is interned, the node has more than 3 children and is held by a thread.
InitShare ==
    \E k \in GcKinds :
        LET hp0 == [i \in Ids |-> IF i = 1 THEN GreenTokenNew(0, "a") ELSE Free] IN
        /\ heap = [hp0 EXCEPT ![2] = GreenNodeNew(hp0, k, <<1, 1, 1, 1>>)]
        /\ rc = [i \in Ids |-> IF i = 1 THEN 5 ELSE IF i = 2 THEN 1 ELSE 0]
        /\ nodes = {}
        /\ tokens = {1}
        /\ ext = [i \in Ids |-> IF i = 2 THEN 1 ELSE 0]
        /\ building = FALSE
        /\ owned = FALSE
        /\ parents = <<>>
        /\ children = <<>>
        /\ cps = <<>>
        /\ ptag = <<>>
        /\ emitted = <<>>
        /\ ncalls = 0
        /\ sweep = SweepIdle
        /\ dying = <<>>
        /\ own_nodes = {}
        /\ own_tokens = {}
        /\ ev = EvBase

SpecShare == InitShare /\ [][NextShare]_vars

\* ------------------------------------------------- trees made without a cache
\* The caller holds two tokens GreenToken::new made.
InitNode ==
    \E k \in TokenKinds, t1 \in NodeTexts, t2 \in NodeTexts :
        /\ heap = [i \in Ids |-> IF i = 1 THEN GreenTokenNew(k, t1)
                                 ELSE IF i = 2 THEN GreenTokenNew(k, t2) ELSE Free]
        /\ rc = [i \in Ids |-> IF i <= 2 THEN 1 ELSE 0]
        /\ ext = [i \in Ids |-> IF i <= 2 THEN 1 ELSE 0]
        /\ nodes = {}
        /\ tokens = {}
        /\ building = FALSE
        /\ owned = FALSE
        /\ parents = <<>>
        /\ children = <<>>
        /\ cps = <<>>
        /\ ptag = <<>>
        /\ emitted = <<>>
        /\ ncalls = 0
        /\ sweep = SweepIdle
        /\ dying = <<>>
        /\ own_nodes = {}
        /\ own_tokens = {}
        /\ ev = EvBase

\* GreenNode::new(kind, children) called by hand: the handles move into the node.
NewNode(kind, els) ==
    /\ ~building
    /\ HasFree(heap)
    /\ \A id \in Ids : Moved(els)[id] <= ext[id]
    /\ LET id == Alloc(heap) IN
        /\ heap' = [heap EXCEPT ![id] = GreenNodeNew(heap, kind, els)]
        /\ rc' = [rc EXCEPT ![id] = 1]
        /\ ext' = [x \in Ids |-> IF x = id THEN 1 ELSE ext[x] - Moved(els)[x]]
        /\ ev' = Ev("new_node", "ok", 0)
    /\ UNCHANGED <<nodes, tokens, building, owned, own_nodes, own_tokens, parents, children, cps, ptag, emitted>>

\* The iterator replace_child hands to GreenNode::new: position idx (0-based) yields
\* new_child, every other position a clone of the child there.
ReplacedMut(hp, self, idx, new_child) ==
    [i \in 1..Len(hp[self].children) |-> IF i = idx THEN new_child ELSE hp[self].children[i].el]
Replaced(hp, self, idx, new_child) ==
    [i \in 1..Len(hp[self].children) |-> IF i - 1 = idx THEN new_child ELSE hp[self].children[i].el]

\* The positions whose child is cloned.
Cloned(hp, self, idx) ==
    SelectSeq([i \in 1..Len(hp[self].children) |-> IF i - 1 = idx THEN 0 ELSE hp[self].children[i].el],
              LAMBDA c : c # 0)

\* GreenNodeData::replace_child(&self, idx, new_child): self is borrowed from a tree
\* the caller keeps, the handle new_child moves into the call. With idx past the end
\* no position takes new_child and its handle is dropped when the call returns.
ReplaceChild(self, idx, new_child) ==
    /\ ~building
    /\ HasFree(heap)
    /\ ext[new_child] > 0
    /\ self \in Retained(heap, [ext EXCEPT ![new_child] = @ - 1])
    /\ IsNode(heap, self)
    /\ LET id == Alloc(heap)
           els == Replaced(heap, self, idx, new_child)
           cnt1 == RetainAll(rc, Cloned(heap, self, idx))
           hp1 == [heap EXCEPT ![id] = GreenNodeNew(heap, heap[self].kind, els)]
           cnt2 == [cnt1 EXCEPT ![id] = 1]
           r == IF idx < Len(heap[self].children)
                THEN [heap |-> hp1, rc |-> cnt2]
                ELSE Release(hp1, cnt2, <<new_child>>)
       IN /\ heap' = r.heap
          /\ rc' = r.rc
          /\ ext' = [x \in Ids |-> IF x = id THEN 1
                                   ELSE IF x = new_child THEN ext[x] - 1 ELSE ext[x]]
          /\ ev' = [Ev("replace_child", "ok", id) EXCEPT
                      !.idx = idx,
                      !.orig = self, !.new_child = new_child]
    /\ UNCHANGED <<nodes, tokens, building, owned, own_nodes, own_tokens, parents, children, cps, ptag, emitted>>

NodeCanAlloc == Cardinality({i \in Ids : heap[i].tag # "free"}) < NodeMaxObj
NodeArgs == UNION {[1..n -> {id \in Ids : ext[id] > 0}] : n \in 0..NodeMaxArity}

NodeCanCall == ncalls < NodeMaxCalls

NextNode ==
    \/ \E k \in Kinds, els \in NodeArgs :
          NodeCanCall /\ NodeCanAlloc /\ ExtSize - Len(els) < NodeMaxExt /\ NewNode(k, els) /\ Called
    \/ \E self \in Ids, idx \in 0..NodeMaxArity, new_child \in Ids :
          NodeCanCall /\ NodeCanAlloc /\ ReplaceChild(self, idx, new_child) /\ Called
    \/ \E id \in Ids : NodeCanCall /\ ExtSize < NodeMaxExt /\ CloneHandle(id) /\ Called
    \/ \E id \in Ids : NodeCanCall /\ DropHandle(id) /\ Called

SpecNode == InitNode /\ [][NextNode]_vars

\* ------------------------------------------------------- child_at_range
\* A TextRange is <<start, end>>. TextRange::at(offset, len)
RangeAt(offset, len) == <<offset, offset + len>>

\* GreenChild::range_in_parent
RangeInParent(hp, child) == RangeAt(child.offset_in_parent, TextLen(hp, child.el))

\* TextRange::ordering(a, b): overlapping ranges compare Equal.
Ordering(a, b) ==
    IF a[2] <= b[1] THEN "Less" ELSE IF b[2] <= a[1] THEN "Greater" ELSE "Equal"

\* TextRange::contains_range
ContainsRange(a, b) == a[1] <= b[1] /\ b[2] <= a[2]

\* slice::binary_search_by over the orderings of the elements: Ok(i) for any one
\* element that compares Equal, else Err(i) with i the insertion point (0-based).
BinarySearchBy(ords) ==
    LET eq == {i \in 1..Len(ords) : ords[i] = "Equal"} IN
    IF eq # {}
    THEN {[ok |-> TRUE, at |-> i - 1] : i \in eq}
    ELSE {[ok |-> FALSE, at |-> Cardinality({i \in 1..Len(ords) : ords[i] = "Less"})]}

\* .unwrap_or_else(|it| it.saturating_sub(1))
SlotBeforeMut(at) == at
SlotBefore(at) == IF at = 0 THEN 0 ELSE at - 1

\* GreenNodeData::child_at_range(range): the results the call may give, None as
\* [some |-> FALSE], Some((idx, offset, element)) with idx 0-based.
ChildAtRangeOf(hp, self, range) ==
    LET c == hp[self].children
        ords == [i \in 1..Len(c) |-> Ordering(RangeInParent(hp, c[i]), range)]
    IN {LET idx == IF b.ok THEN b.at ELSE SlotBefore(b.at) IN
        IF idx < Len(c) /\ ContainsRange(RangeInParent(hp, c[idx + 1]), range)
        THEN [some |-> TRUE, idx |-> idx, offset |-> c[idx + 1].offset_in_parent,
              el |-> c[idx + 1].el]
        ELSE [some |-> FALSE, idx |-> 0, offset |-> 0, el |-> 0]
          : b \in BinarySearchBy(ords)}

\* The caller holds a node GreenNode::new made from up to RangeMaxArity elements: the
\* tokens "a" and "bc" and an element of length 0 (an empty token or an empty node).
InitRange ==
    \E k \in Kinds, empty \in {"token", "node"},
       els \in UNION {[1..n -> 1..3] : n \in 0..RangeMaxArity} :
        LET hp0 == [i \in Ids |->
                      IF i = 1 THEN GreenTokenNew(0, "a")
                      ELSE IF i = 2 THEN GreenTokenNew(0, "bc")
                      ELSE IF i = 3 THEN (IF empty = "token" THEN GreenTokenNew(0, "")
                                          ELSE GreenNodeNew([j \in Ids |-> Free], k, <<>>))
                      ELSE Free]
        IN /\ heap = [hp0 EXCEPT ![4] = GreenNodeNew(hp0, k, els)]
           /\ rc = [i \in Ids |-> IF i = 4 THEN 1
                                  ELSE IF i <= 3 THEN 1 + Moved(els)[i] ELSE 0]
           /\ ext = [i \in Ids |-> IF i <= 4 THEN 1 ELSE 0]
           /\ nodes = {}
           /\ tokens = {}
           /\ building = FALSE
           /\ owned = FALSE
           /\ parents = <<>>
           /\ children = <<>>
           /\ cps = <<>>
           /\ ptag = <<>>
           /\ emitted = <<>>
           /\ ncalls = 0
           /\ sweep = SweepIdle
           /\ dying = <<>>
           /\ own_nodes = {}
           /\ own_tokens = {}
           /\ ev = EvBase

\* node.child_at_range(TextRange::new(start, end)): nothing but the answer changes.
ChildAtRange(self, start, end) ==
    /\ ~building
    /\ self \in Retained(heap, ext)
    /\ IsNode(heap, self)
    /\ start <= end
    /\ \E r \in ChildAtRangeOf(heap, self, <<start, end>>) :
          ev' = [Ev("child_at_range", IF r.some THEN "some" ELSE "none", r.el) EXCEPT
                   !.idx = r.idx, !.offset = r.offset, !.orig = self,
                   !.start = start, !.end = end]
    /\ UNCHANGED <<heap, rc, nodes, tokens, building, owned, own_nodes, own_tokens, parents, children, ext,
                   cps, ptag, emitted, ncalls, sweep, dying>>

NextRange ==
    \E self \in Ids, start \in 0..RangeMaxEnd, end \in 0..RangeMaxEnd :
        ChildAtRange(self, start, end)

SpecRange == InitRange /\ [][NextRange]_vars

\* ------------------------------------------------------------- claims
\* C1. Checkpoint semantics: when the frame opened by start_node_at(cp, K) is closed
\* and only complete elements were appended since cp = checkpoint(), the pending
\* buffer is the buffer as it was at the checkpoint (the same elements, unchanged)
\* followed by one node of kind K whose children are the elements appended after
\* the checkpoint, in order.
C1_CheckpointWraps ==
    (ev.op = "finish_node" /\ ev.res = "ok" /\ ev.clean) =>
        /\ Len(children) = Len(ev.prefix) + 1
        /\ \A i \in 1..Len(ev.prefix) :
              /\ children[i] = ev.prefix[i].id
              /\ Shape(heap, children[i]) = ev.prefix[i].shape
        /\ children[Len(children)] = ev.ret
        /\ IsNode(heap, ev.ret)
        /\ heap[ev.ret].kind = ev.kind
        /\ ShapesOf(heap, ChildIds(heap[ev.ret])) = ev.appended

\* Token A, checkpoint, tokens B and C, start_node_at, finish_node inside an open
\* root: the buffer holds A and K[B, C].
C1_Witness ==
    /\ ev.op = "finish_node" /\ ev.clean
    /\ Len(ev.prefix) = 1 /\ Len(ev.appended) = 2
    /\ Len(parents) = 1
    /\ Len(children) = 2
    /\ IsToken(heap, children[1])
    /\ Len(heap[children[2]].children) = 2
    /\ heap[children[2]].kind = 1

\* C2. Round trip: the texts of the tokens of the root finish() returns, read in
\* pre-order, are the texts passed to token() in call order.
C2_RoundTrip ==
    (ev.op = "finish" /\ ev.res = "ok") => LeafTexts(heap, ev.ret) = ev.texts

C2_Witness ==
    /\ ev.op = "finish" /\ ev.res = "ok"
    /\ Len(ev.texts) = 3
    /\ ev.texts[1] # ev.texts[2]
    /\ \E i \in 1..Len(heap[ev.ret].children) : IsNode(heap, heap[ev.ret].children[i].el)

\* C7. Misuse rejected: finish_node() with no open frame panics, and finish() with
\* a pending buffer of more than one element, or none, panics.
C7_MisuseRejected ==
    /\ (ev.op = "finish_node" /\ ev.plen = 0) => (ev.res = "panic" /\ ev.ret = 0)
    /\ (ev.op = "finish" /\ ev.clen # 1) => (ev.res = "panic" /\ ev.ret = 0)

C7_Witness ==
    ev.op = "finish_node" /\ ev.plen = 0 /\ ev.clen = 2 /\ ev.res = "panic"

\* C9 as claimed: start_node_at(cp, K) panics whenever a finish_node drained the
\* buffer from below cp since cp was taken, or cp was already consumed by a
\* start_node_at/finish_node pair.
C9_StaleRejected ==
    (ev.op = "start_node_at" /\ (ev.stale \/ ev.consumed)) => ev.res = "panic"

\* C9 as amended: for such a checkpoint start_node_at(cp, K) panics exactly when cp
\* exceeds the length of the pending buffer or lies below the start of the open
\* frame; otherwise it opens the frame.
C9_StaleRejectedOutOfRange ==
    (ev.op = "start_node_at" /\ (ev.stale \/ ev.consumed)) =>
        (ev.res = "panic" <=> (ev.idx > ev.clen \/ (ev.plen > 0 /\ ev.idx < ev.top)))

C9_Witness ==
    ev.op = "start_node_at" /\ ev.stale /\ ev.res = "panic" /\ ev.idx > ev.clen

\* C10 as claimed: finish() panics whenever a frame is still open.
C10_UnmatchedRejected ==
    (ev.op = "finish" /\ ev.plen > 0) => ev.res = "panic"

\* C3. Offset invariant: in every node the first child is at offset 0, each next
\* child at the offset of the one before plus the length of the one before, and
\* text_len is the offset of the last child plus its length, 0 without children.
OffsetsOk(hp, id) ==
    LET c == hp[id].children
        n == Len(c)
    IN /\ n = 0 => hp[id].text_len = 0
       /\ n > 0 =>
             /\ c[1].offset_in_parent = 0
             /\ \A i \in 1..(n - 1) :
                   c[i + 1].offset_in_parent = c[i].offset_in_parent + TextLen(hp, c[i].el)
             /\ hp[id].text_len = c[n].offset_in_parent + TextLen(hp, c[n].el)

C3_OffsetInvariant == \A id \in Ids : IsNode(heap, id) => OffsetsOk(heap, id)

\* replace_child put a node of length 3 before a token of length 2: the token is at
\* offset 3 and the new node has length 5.
C3_Witness ==
    /\ ev.op = "replace_child"
    /\ Len(heap[ev.ret].children) = 2
    /\ IsNode(heap, heap[ev.ret].children[1].el)
    /\ heap[ev.ret].children[2].offset_in_parent = 3
    /\ heap[ev.ret].text_len = 5

\* C8. Persistent update: replace_child(i, x) with i in range allocates a node of the
\* kind of the original whose child at i is x and whose child at every other
\* position is the original's child there, the very same allocation, whose strong
\* count rises by one for each such position; the original and every other object
\* that existed before are unchanged.
C8_PersistentUpdate ==
    [][(ev'.op = "replace_child" /\ ev'.idx < Len(heap[ev'.orig].children)) =>
          LET p == ev'.orig
              r == ev'.ret
              i == ev'.idx + 1
              n == Len(heap[p].children)
          IN /\ heap[r].tag = "free"
             /\ IsNode(heap', r)
             /\ heap'[r].kind = heap[p].kind
             /\ Len(heap'[r].children) = n
             /\ heap'[r].children[i].el = ev'.new_child
             /\ \A j \in (1..n) \ {i} : heap'[r].children[j].el = heap[p].children[j].el
             /\ \A c \in Ids \ {r} :
                   rc'[c] = rc[c] + Cardinality({j \in (1..n) \ {i} : heap[p].children[j].el = c})
             /\ \A o \in Ids \ {r} : heap'[o] = heap[o]]_vars

\* replace_child(1, x) on a node of three children put x in the middle.
C8_Witness ==
    /\ ev.op = "replace_child" /\ ev.idx = 1
    /\ IsNode(heap, ev.orig)
    /\ Len(heap[ev.orig].children) = 3
    /\ heap[ev.ret].children[2].el = ev.new_child
    /\ heap[ev.orig].children[2].el # ev.new_child
    /\ heap[ev.orig].children[1].el # heap[ev.orig].children[3].el
    /\ rc[heap[ev.orig].children[1].el] = 2

\* C4. Structural dedup: when node() with at most 3 children, or token(), is called
\* while an instance equal by value to what the call builds is alive, the call
\* returns a handle to that very allocation, its strong count rises by one, and no
\* other live object is equal to it after the call.
C4_CanonicalInstance ==
    [][(ev'.op \in {"node", "token"} /\ ev'.n <= InternThreshold) =>
          \A x \in Ids :
             (heap[x].tag # "free" /\ Shape(heap, x) = Shape(heap', ev'.ret)) =>
                 /\ ev'.ret = x
                 /\ rc'[x] = rc[x] + 1
                 /\ heap'[x] = heap[x]
                 /\ Equals(heap', x) = {}]_vars

\* node(K, [a]) called while the caller already holds the K[a] an earlier call made.
C4_Witness ==
    /\ ev.op = "node" /\ ev.n = 1
    /\ ext[ev.ret] = 2 /\ rc[ev.ret] = 3
    /\ ev.ret \in nodes

\* C5. Reclamation safety: gc() leaves every object reachable from a handle held
\* outside the cache alive and unchanged, and leaves in the tables every entry that
\* is reachable from such a handle, so a lookup equal to it still finds that entry.
C5_GcKeepsRetained ==
    [][ev'.op = "gc" =>
          \A id \in Retained(heap, ext) :
             /\ heap'[id] = heap[id]
             /\ rc'[id] >= 1
             /\ id \in nodes => (id \in nodes' /\ Lookup(heap', nodes', id) = {id})
             /\ id \in tokens => (id \in tokens' /\ Lookup(heap', tokens', id) = {id})]_vars

\* The caller holds X = K[a] and has dropped P = K[X]: gc() removes P and keeps X, a.
C5_Witness ==
    /\ ev.op = "gc" /\ ev.n >= 1
    /\ \E x \in nodes :
          /\ ext[x] > 0
          /\ Len(heap[x].children) = 1
          /\ heap[x].children[1].el \in tokens

\* C6. Reclamation completeness: when gc() returns, every entry of either table has
\* an owner besides the table and is reachable from a handle held outside the cache.
C6_GcCollectsUnheld ==
    ev.op = "gc" =>
        \A e \in nodes \cup tokens : rc[e] > TableOnlyCount /\ e \in Retained(heap, ext)

\* Nothing is held outside: one gc() removes a parent, its child node and the token.
C6_Witness ==
    /\ ev.op = "gc" /\ ev.n = 3
    /\ nodes = {} /\ tokens = {}
    /\ ExtSize = 0

\* C11. start_node_at validity rule: start_node_at(cp, K) panics exactly when cp is
\* greater than the length of the pending buffer or smaller than the start index of
\* the top frame; otherwise it pushes the frame (K, cp) and leaves the pending
\* buffer, the frames below and every object unchanged.
C11_StartNodeAtRule ==
    [][ev'.op = "start_node_at" =>
          /\ ev'.res = "panic" <=>
                \/ ev'.idx > Len(children)
                \/ parents # <<>> /\ ev'.idx < parents[Len(parents)][2]
          /\ ev'.res = "ok" =>
                /\ parents' = Append(parents, <<ev'.kind, ev'.idx>>)
                /\ children' = children
                /\ heap' = heap
                /\ rc' = rc]_vars

\* A checkpoint taken before start_node: its index is within the buffer but below
\* the start of the open frame, and start_node_at panics.
C11_Witness ==
    /\ ev.op = "start_node_at" /\ ev.res = "panic"
    /\ ev.plen > 0
    /\ ev.idx < ev.top
    /\ ev.idx <= ev.clen

\* C12. Intern threshold: node() puts its result in the node table exactly when it
\* has at most 3 children; with more children the result is a fresh allocation held
\* by the caller alone, distinct from every equal node made before; and the node
\* table never holds a node with more than 3 children.
C12_InternThreshold ==
    [][/\ \A e \in nodes' : Len(heap'[e].children) <= InternThreshold
       /\ ev'.op = "node" =>
             /\ ev'.ret \in nodes' <=> ev'.n <= InternThreshold
             /\ ev'.n > InternThreshold =>
                   /\ heap[ev'.ret].tag = "free"
                   /\ rc'[ev'.ret] = 1]_vars

\* node(K, [a, a, a, a]) called twice: two live allocations that are equal by value,
\* neither in the table.
C12_Witness ==
    /\ ev.op = "node" /\ ev.n = 4
    /\ ev.ret \notin nodes
    /\ Equals(heap, ev.ret) # {}
    /\ \A x \in Equals(heap, ev.ret) : x \notin nodes

\* C13. child_at_range(range) returns a child exactly when some child's span
\* [offset, offset + text_len) contains the range, and then the index, offset and
\* element of such a child; a non-empty range is contained in at most one child;
\* an empty range on the boundary between two children gives the child that ends
\* there.
Containing(hp, self, start, end) ==
    {i \in 1..Len(hp[self].children) :
        /\ hp[self].children[i].offset_in_parent <= start
        /\ end <= hp[self].children[i].offset_in_parent + TextLen(hp, hp[self].children[i].el)}

OnBoundary(hp, self, at) ==
    \E i \in 1..(Len(hp[self].children) - 1) : hp[self].children[i + 1].offset_in_parent = at

C13_ChildAtRange ==
    ev.op = "child_at_range" =>
        LET c == heap[ev.orig].children
            hit == Containing(heap, ev.orig, ev.start, ev.end)
        IN /\ ev.res = "some" <=> hit # {}
           /\ ev.res = "some" =>
                 /\ ev.idx + 1 \in hit
                 /\ ev.offset = c[ev.idx + 1].offset_in_parent
                 /\ ev.ret = c[ev.idx + 1].el
           /\ ev.start < ev.end => Cardinality(hit) <= 1
           /\ (ev.start = ev.end /\ OnBoundary(heap, ev.orig, ev.start)) =>
                 /\ ev.res = "some"
                 /\ c[ev.idx + 1].offset_in_parent + TextLen(heap, c[ev.idx + 1].el) = ev.start

\* The empty range at 1 in a node of "a" and "bc" gives child 0, the one that ends
\* at 1, although the span of child 1 contains it too.
C13_Witness ==
    /\ ev.op = "child_at_range" /\ ev.res = "some"
    /\ ev.start = 1 /\ ev.end = 1
    /\ Len(heap[ev.orig].children) = 2
    /\ Cardinality(Containing(heap, ev.orig, 1, 1)) = 2
    /\ ev.idx = 0

\* C14. Only gc() shrinks the cache: every step other than gc() keeps each entry of
\* the node table and of the token table in its table, alive and unchanged.
C14_OnlyGcShrinks ==
    [][ev'.op # "gc" =>
          /\ nodes \subseteq nodes'
          /\ tokens \subseteq tokens'
          /\ \A e \in nodes \cup tokens : heap'[e] = heap[e] /\ rc'[e] >= TableOnlyCount]_vars

\* The last handle outside the cache was dropped: a node and a token stay in the
\* tables with the table as their only owner.
C14_Witness ==
    /\ ev.op = "handle"
    /\ ExtSize = 0
    /\ \E e \in nodes : rc[e] = TableOnlyCount
    /\ tokens # {}

\* C15. finish_node effect: with the top frame (k, s) and a pending buffer of length
\* n >= s, finish_node() succeeds, pops that frame and replaces buffer[s..n) by one
\* node of kind k whose children are buffer[s..n) in order; the buffer then has
\* length s + 1, and buffer[0..s) and the lower frames are unchanged.
C15_FinishNodeEffect ==
    [][(/\ ev'.op = "finish_node"
        /\ parents # <<>>
        /\ parents[Len(parents)][2] <= Len(children)) =>
          LET k == parents[Len(parents)][1]
              s == parents[Len(parents)][2]
              n == Len(children)
          IN /\ ev'.res = "ok"
             /\ parents' = SubSeq(parents, 1, Len(parents) - 1)
             /\ Len(children') = s + 1
             /\ \A i \in 1..s : children'[i] = children[i] /\ heap'[children[i]] = heap[children[i]]
             /\ IsNode(heap', children'[s + 1])
             /\ heap'[children'[s + 1]].kind = k
             /\ ShapesOf(heap', ChildIds(heap'[children'[s + 1]]))
                   = ShapesOf(heap, SubSeq(children, s + 1, n))]_vars

\* A frame opened by start_node at index 1 is closed over the two elements pushed
\* since, below another open frame.
C15_Witness ==
    /\ ev.op = "finish_node" /\ ev.res = "ok"
    /\ ev.cp = 0 /\ ev.idx = 1 /\ ev.n = 2
    /\ Len(children) = 2
    /\ Len(parents) = 1
    /\ Len(heap[children[2]].children) = 2

\* C16 as claimed: finish() called with exactly one pending element returns it.
C16_FinishReturnsElement ==
    (ev.op = "finish" /\ ev.clen = 1) => (ev.res = "ok" /\ ev.ret # 0)

\* C16 as amended: finish() called with exactly one pending element consumes the
\* builder; when the element is a node it is returned as the root, unchanged, and
\* when it is a token the call panics and returns nothing.
C16_FinishReturnsNode ==
    [][(ev'.op = "finish" /\ Len(children) = 1) =>
          /\ ~building'
          /\ IsNode(heap, children[1]) =>
                /\ ev'.res = "ok"
                /\ ev'.ret = children[1]
                /\ ext'[children[1]] = ext[children[1]] + 1
                /\ Shape(heap', children[1]) = Shape(heap, children[1])
          /\ IsToken(heap, children[1]) =>
                /\ ev'.res = "panic"
                /\ ev'.ret = 0
                /\ ext' = ext]_vars

\* token(); finish(): the one pending element is a token and finish() panics.
C16_Witness ==
    /\ ev.op = "finish" /\ ev.res = "panic"
    /\ ev.clen = 1 /\ ev.plen = 0
    /\ ~building

\* The owning references to a popped node other than the table's slot and the
\* handle the sweep popped.
OtherOwners(p) == p.count - (IF p.in_table THEN 1 ELSE 0) - 1

\* C17 as claimed: a node popped from the worklist is treated as collectible exactly
\* when nothing owns it besides the table's slot and the popped handle, whether it
\* is interned or not.
C17_CollectibleIffUnowned ==
    ev.op = "gc" =>
        \A i \in 1..Len(ev.log) : ev.log[i].collect <=> OtherOwners(ev.log[i]) = 0

\* C17 as amended: a popped node is treated as collectible exactly when its strong
\* count is at most 2. For a node that has its table slot this is when nothing else
\* owns it; a node without a table slot is treated as collectible also when one
\* other owner remains, which happens only to uninterned nodes, a drained root
\* having no other owner.
C17_CollectibleIffCountAtMost2 ==
    ev.op = "gc" =>
        \A i \in 1..Len(ev.log) :
            LET p == ev.log[i] IN
            /\ p.collect <=> p.count <= GcLiveCount
            /\ p.in_table => (p.collect <=> OtherOwners(p) = 0)
            /\ ~p.in_table => (p.collect <=> OtherOwners(p) <= 1)
            /\ (~p.in_table /\ p.n <= InternThreshold) => OtherOwners(p) = 0

\* The caller holds the 4-child node U and dropped its parent: gc() pops U with the
\* caller's handle as its other owner and treats it as collectible; U stays alive.
C17_Witness ==
    /\ ev.op = "gc"
    /\ \E i \in 1..Len(ev.log) :
          /\ ev.log[i].collect
          /\ ~ev.log[i].in_table
          /\ ev.log[i].n > InternThreshold
          /\ OtherOwners(ev.log[i]) = 1
    /\ \E u \in Ids : ext[u] > 0 /\ Len(heap[u].children) > InternThreshold

\* The handles to id: the table slots, the threads' handles, the child slots of live
\* nodes, the worklist and the popped handle of a running gc(), and the handles a
\* thread has still to drop.
RECURSIVE SlotsIn(_, _)
SlotsIn(id, p) ==
    IF p = 0 THEN 0
    ELSE Cardinality({i \in 1..Len(heap[p].children) : heap[p].children[i].el = id})
         + SlotsIn(id, p - 1)

Held(id, q) == Cardinality({i \in 1..Len(q) : q[i] = id})

Referrers(id) ==
    (IF id \in nodes THEN 1 ELSE 0) + (IF id \in tokens THEN 1 ELSE 0) + ext[id]
    + (IF id \in own_nodes THEN 1 ELSE 0) + (IF id \in own_tokens THEN 1 ELSE 0)
    + SlotsIn(id, MaxObj)
    + Held(id, sweep.to_drop) + Held(id, sweep.pend) + Held(id, dying)
    + (IF sweep.node = id THEN 1 ELSE 0)

NothingDangles == \A id \in Ids : Referrers(id) > 0 => (heap[id].tag # "free" /\ rc[id] > 0)

RemovedUnheld ==
    \A e \in (nodes \ nodes') \cup (tokens \ tokens') : ext[e] = 0 /\ Held(e, dying) = 0

\* C18. Concurrent sharing: while one thread runs builder calls and gc() on the
\* cache and other threads clone and drop handles to trees whose nodes and tokens
\* are in it, under every interleaving of the reference-count steps (a) nothing is
\* freed while a handle or a parent still refers to it, and (b) gc() removes a table
\* entry only if no handle outside the cache refers to it at the moment of removal.
C18_ConcurrentSharing == []NothingDangles /\ [][RemovedUnheld]_vars

\* gc() has just removed an entry and is about to queue its children while another
\* thread is in the middle of freeing a node and threads hold handles.
C18_Witness ==
    /\ ev.op = "gc_removed"
    /\ ev.ret # 0
    /\ sweep.pc = "push"
    /\ dying # <<>>
    /\ ExtSize > 0

\* The start indices on the parents stack do not decrease from bottom to top and
\* the top one is within the pending buffer.
StackOrdered ==
    /\ \A i, j \in 1..Len(parents) : i <= j => parents[i][2] <= parents[j][2]
    /\ parents # <<>> => parents[Len(parents)][2] <= Len(children)

\* finish_node() aborts only with no frame open.
FinishNodeAbortsUnopened ==
    (ev'.op = "finish_node" /\ ev'.res = "panic") => (building /\ parents = <<>>)

\* C19. Builder stack invariant: in every state reached by token, start_node,
\* finish_node, checkpoint and start_node_at calls that did not abort, the start
\* indices on the parents stack are non-decreasing from bottom to top and the top
\* one is at most the pending-buffer length; so finish_node() aborts only because
\* no frame is open, never because its drain range is out of bounds.
C19_StackInvariant == []StackOrdered /\ [][FinishNodeAbortsUnopened]_vars

\* start_node_at has opened a second frame above the first one's start and below
\* the end of the pending buffer.
C19_Witness ==
    /\ ev.op = "start_node_at"
    /\ ev.res = "ok"
    /\ Len(parents) = 2
    /\ parents[1][2] < parents[2][2]
    /\ parents[2][2] < Len(children)

\* The objects in the child slots of id.
ChildSet(id) == {heap[id].children[i].el : i \in 1..Len(heap[id].children)}

\* The objects reached from S through at most n child slots.
RECURSIVE Reach(_, _)
Reach(S, n) == IF n = 0 THEN S ELSE Reach(S \cup UNION {ChildSet(x) : x \in S}, n - 1)

\* The descendants of id.
Below(id) == Reach(ChildSet(id), MaxObj)

\* C20 as claimed: in every tree the builder, GreenNode::new or replace_child made,
\* each child's text length is strictly smaller than its parent's text_len.
C20_StrictlyContained ==
    \A p \in Ids : IsNode(heap, p) =>
        \A c \in ChildSet(p) : TextLen(heap, c) < TextLen(heap, p)

\* C20 as amended: each child is a live object whose span lies within its parent's
\* span, so its text length is at most the parent's text_len, and no node is its
\* own descendant.
C20_Contained ==
    \A p \in Ids : IsNode(heap, p) =>
        /\ \A i \in 1..Len(heap[p].children) :
              LET child == heap[p].children[i] IN
              /\ heap[child.el].tag # "free"
              /\ RangeInParent(heap, child)[2] <= TextLen(heap, p)
              /\ TextLen(heap, child.el) <= TextLen(heap, p)
        /\ p \notin Below(p)

\* replace_child returned a node with a child node as long as itself, itself a
\* node with a child of that length.
C20_Witness ==
    /\ ev.op = "replace_child"
    /\ ev.ret # 0
    /\ \E c \in ChildSet(ev.ret) :
          /\ IsNode(heap, c)
          /\ TextLen(heap, c) = TextLen(heap, ev.ret)
          /\ TextLen(heap, c) > 0
          /\ \E t \in ChildSet(c) : TextLen(heap, t) = TextLen(heap, c)

\* Every strong count equals the number of handles to the allocation.
Handles(id) ==
    (IF id \in nodes THEN 1 ELSE 0) + (IF id \in tokens THEN 1 ELSE 0) + ext[id]
    + (IF id \in own_nodes THEN 1 ELSE 0) + (IF id \in own_tokens THEN 1 ELSE 0)
    + Held(id, children)
    + SlotsIn(id, MaxObj)
    + Held(id, sweep.to_drop) + Held(id, sweep.pend) + Held(id, dying)
    + (IF sweep.node = id /\ sweep.pc \in {"remove", "push"} THEN 1 ELSE 0)

CountsExact == \A id \in Ids : rc[id] = Handles(id) /\ (rc[id] = 0 <=> heap[id].tag = "free")

====
